---------------------------- MODULE Spec2Model ----------------------------
(***************************************************************************)
(* State-machine model of the SlideDeck of src/js/index.js: the current    *)
(* slide index, the asynchronous syncMapToSlide calls in flight, the       *)
(* GeoJSON overlay held by the data layer group, the 'moveend' listeners   *)
(* registered on the map and the legend control.                           *)
(*                                                                         *)
(* The page runs on one event loop.  Every action below is one task of     *)
(* that loop: a scroll event, a call of goNextSlide / goPrevSlide, the     *)
(* continuation of syncMapToSlide after its only await (line 193), the     *)
(* rejection of that await, or a 'moveend' event of the map.               *)
(***************************************************************************)
EXTENDS Integers, Sequences, FiniteSets

(***************************************************************************)
(* Bounds of the model.                                                    *)
(***************************************************************************)
\* syncMapToSlide calls made in one run, the one of startup included.
MaxSyncs == 4
\* Scroll positions tried by a scroll event: 0, 10, ..., 10 * MaxScrollSteps.
MaxScrollSteps == 4

(***************************************************************************)
(* The page: document.querySelectorAll('.slide') (line 16) and the data    *)
(* files data/<id>.json fetched at line 167.                               *)
(***************************************************************************)
Slide(id, popups) == [id |-> id, showpopups |-> popups]

\* The slide lists the deck is constructed with (line 46).
SlideConfigs ==
  { << Slide("title-slide", FALSE) >>,
    << Slide("second-slide", TRUE), Slide("title-slide", FALSE) >>,
    << Slide("title-slide", FALSE), Slide("second-slide", TRUE),
       Slide("third-slide", FALSE) >> }

(***************************************************************************)
(* The data files.  data/<id>.json holds a FeatureCollection with at least *)
(* one feature, each with a geometry and a properties object, and an       *)
(* optional bbox [west, south, east, north] with west <= east and          *)
(* south <= north.  Features are points, given as << lat, lng >>.          *)
(***************************************************************************)
\* Number of features of the FeatureCollection in data/<id>.json.
NumFeatures(id) ==
  CASE id = "title-slide"  -> 2
    [] id = "second-slide" -> 1
    [] OTHER               -> 3

\* Whether the collection carries a bbox (`collection.bbox` is truthy, line 226).
HasBbox(id) == id \in { "title-slide", "third-slide" }

\* collection.bbox, for the collections that carry one.
Bbox(id) ==
  IF id = "title-slide" THEN << -10, -10, 10, 10 >> ELSE << 100, -5, 120, 20 >>

\* The position of feature f of the collection.
FeaturePoint(id, f) ==
  CASE id = "title-slide"  -> << f, 2 * f >>
    [] id = "second-slide" -> << 40, 50 >>
    [] OTHER               -> << 10 * f, 110 - f >>

VARIABLES
  slides,             \* this.slides: the slide elements, in document order
  hidden,             \* the slides whose classList holds 'hidden'
  currentSlideIndex,  \* this.currentSlideIndex
  syncs,              \* the syncMapToSlide calls made so far, in call order
  dataLayer,          \* this.dataLayer: the L.geoJSON layers in the layer group
  lastLayer,          \* the layer returned by the latest updateDataLayer (0: none)
  moveendListeners,   \* the handleFlyEnd closures registered for 'moveend'
  flyTarget,          \* the bounds of the latest flyToBounds (<< >>: none yet)
  controls,           \* the controls shown on the map
  legendAdds,         \* the number of this.legend.addTo(this.map) calls
  tooltips,           \* the feature layers given a permanent tooltip
  preloads,           \* the fetches of preloadFeatureCollections, by slide
  noopScroll,         \* the latest task was a scroll event that changed no index
  scan                \* one run of the loop of calcCurrentSlideIndex (ScanSpec)

\* The deck, the page and the map.
deckVars == << slides, hidden, currentSlideIndex, syncs, dataLayer, lastLayer,
               moveendListeners, flyTarget, controls, legendAdds, tooltips >>
\* What only the specifications of single parts of the program change.
sideVars == << preloads, noopScroll, scan >>

vars == << deckVars, sideVars >>

N == Len(slides)

\* JavaScript arrays are 0-based: this.slides[i] is slides[i + 1] here.
InRange(i) == i >= 0 /\ i < N
SlideAt(i) == slides[i + 1]

(***************************************************************************)
(* A syncMapToSlide call.  idx is the index it was called for, op the      *)
(* caller, state the state of its promise and flyEnds the number of times  *)
(* its handleFlyEnd closure has run.  The call's position in syncs names   *)
(* the call, the L.geoJSON layer it creates and its handleFlyEnd closure.  *)
(***************************************************************************)
SyncIds == 1..Len(syncs)
Pending == { k \in SyncIds : syncs[k].state = "pending" }

\* The slide call k was made for (the `slide` of its closure).
SlideOf(k) == SlideAt(syncs[k].idx)

\* The feature layers of the L.geoJSON layer created by call k.
LayerFeatures(k) ==
  IF k = 0 THEN {}
  ELSE { << k, f >> : f \in 1..NumFeatures(SlideAt(syncs[k].idx).id) }

\* All feature layers on the map through the data layer group.
OverlayFeatures == UNION { LayerFeatures(k) : k \in dataLayer }

(***************************************************************************)
(* The layers of the map: the tile layer (line 12) and the data layer      *)
(* group (line 99) are the only objects added to the map as layers.  The   *)
(* legend is an L.control, added by Control.addTo, which keeps the control *)
(* in the map's control corners and not among its layers; hasLayer looks   *)
(* an object up among the layers.                                          *)
(***************************************************************************)
MapLayers == { "tileLayer", "dataLayer" }
hasLayer(obj) == obj \in MapLayers

(***************************************************************************)
(* updateDataLayer (lines 134-156), for the collection resolved by call k: *)
(* clears the layer group, then adds the new L.geoJSON layer to it.        *)
(***************************************************************************)
\* updateDataLayer without the clearLayers of line 135.
updateDataLayerNoClear(k) ==
  /\ dataLayer' = dataLayer \cup {k}
  /\ lastLayer' = k

updateDataLayer(k) ==
  /\ dataLayer' = {k}
  /\ lastLayer' = k

(***************************************************************************)
(* Bounds.  L.latLngBounds(a, b) is the smallest box holding both corners; *)
(* boundsFromBbox (lines 202-209) builds it from a bbox; layer.getBounds() *)
(* is the smallest box holding every feature of the layer.                 *)
(***************************************************************************)
Min(S) == CHOOSE x \in S : \A y \in S : x <= y
Max(S) == CHOOSE x \in S : \A y \in S : x >= y

boundsOf(points) ==
  [sw |-> << Min({ p[1] : p \in points }), Min({ p[2] : p \in points }) >>,
   ne |-> << Max({ p[1] : p \in points }), Max({ p[2] : p \in points }) >>]

latLngBounds(a, b) == boundsOf({ a, b })

boundsFromBbox(bbox) ==
  LET west == bbox[1]
      south == bbox[2]
      east == bbox[3]
      north == bbox[4]
  IN latLngBounds(<< south, west >>, << north, east >>)

getBounds(k) ==
  boundsOf({ FeaturePoint(SlideOf(k).id, f) : f \in 1..NumFeatures(SlideOf(k).id) })

\* Lines 226-230 with the test on collection.bbox left out.
flyToBoundsOfLayer(k) == flyTarget' = << getBounds(k) >>

\* Lines 226-230: the bounds flyToBounds is called with by call k.
flyToBounds(k) ==
  IF HasBbox(SlideOf(k).id)
  THEN flyTarget' = << boundsFromBbox(Bbox(SlideOf(k).id)) >>
  ELSE flyTarget' = << getBounds(k) >>

(***************************************************************************)
(* Lines 232-240: the legend is added on the title slide when hasLayer     *)
(* does not report it, and removed on any other slide when hasLayer        *)
(* reports it.                                                             *)
(***************************************************************************)
SyncLegend(slide) ==
  IF slide.id = "title-slide"
  THEN IF ~hasLayer("legend")
       THEN /\ controls' = controls \cup {"legend"}
            /\ legendAdds' = legendAdds + 1
       ELSE UNCHANGED << controls, legendAdds >>
  ELSE IF hasLayer("legend")
       THEN /\ controls' = controls \ {"legend"}
            /\ UNCHANGED legendAdds
       ELSE UNCHANGED << controls, legendAdds >>

(***************************************************************************)
(* hideAllSlides (lines 179-183).  No line of the program calls it, and    *)
(* no line removes 'hidden' from a slide.                                  *)
(***************************************************************************)
hideAllSlides == hidden' = 1..N

(***************************************************************************)
(* syncMapToCurrentSlide (lines 247-250) for index i, called by op: the    *)
(* part of syncMapToSlide that runs before its await.  For an index with   *)
(* no slide, slide is undefined and `slide.id` (line 167) throws: the      *)
(* promise is rejected with nothing done.                                  *)
(***************************************************************************)
syncMapToCurrentSlide(i, op) ==
  syncs' = Append(syncs,
             [idx |-> i, op |-> op, flyEnds |-> 0,
              state |-> IF InRange(i) THEN "pending" ELSE "failed"])

(***************************************************************************)
(* Startup (lines 46-51): index 0, the fetches of                          *)
(* preloadFeatureCollections and the first syncMapToCurrentSlide.  The     *)
(* page's markup hides no slide, or every slide but the first.             *)
(***************************************************************************)
DeckInit ==
  /\ slides \in SlideConfigs
  /\ hidden \in { {}, 2..N }
  /\ currentSlideIndex = 0
  /\ syncs = << [idx |-> 0, op |-> "init", flyEnds |-> 0, state |-> "pending"] >>
  /\ dataLayer = {}
  /\ lastLayer = 0
  /\ moveendListeners = {}
  /\ flyTarget = << >>
  /\ controls = {}
  /\ legendAdds = 0
  /\ tooltips = {}
  /\ preloads = [i \in 1..N |-> "pending"]
  /\ noopScroll = FALSE

Init ==
  /\ DeckInit
  /\ scan = << >>

\* What the calls of the deck's index methods leave alone.
mapVars == << slides, hidden, dataLayer, lastLayer, moveendListeners,
              flyTarget, controls, legendAdds, tooltips >>

(***************************************************************************)
(* goNextSlide (lines 256-264).                                            *)
(***************************************************************************)
\* goNextSlide without the wrap of lines 259-261.
NextIndexNoWrap(i) == i + 1

NextIndex(i) == IF i + 1 = N THEN 0 ELSE i + 1

goNextSlide ==
  /\ Len(syncs) < MaxSyncs
  /\ currentSlideIndex' = NextIndex(currentSlideIndex)
  /\ syncMapToCurrentSlide(currentSlideIndex', "next")
  /\ UNCHANGED mapVars

(***************************************************************************)
(* goPrevSlide (lines 270-278).                                            *)
(***************************************************************************)
\* goPrevSlide wrapping to slides.length instead of slides.length - 1.
PrevIndexOffByOne(i) == IF i - 1 < 0 THEN N ELSE i - 1

PrevIndex(i) == IF i - 1 < 0 THEN N - 1 ELSE i - 1

goPrevSlide ==
  /\ Len(syncs) < MaxSyncs
  /\ currentSlideIndex' = PrevIndex(currentSlideIndex)
  /\ syncMapToCurrentSlide(currentSlideIndex', "prev")
  /\ UNCHANGED mapVars

(***************************************************************************)
(* calcCurrentSlideIndex (lines 296-313).  A scroll event reads the slide  *)
(* offsets, scrollPos = window.scrollY - container.offsetTop and           *)
(* window.innerHeight from the page.  slidePos is kept in tenths of a      *)
(* pixel, so that windowHeight * 0.7 is the integer 7 * windowHeight; the  *)
(* window heights drawn are those whose product with 0.7 is exact in       *)
(* double precision.                                                       *)
(***************************************************************************)
\* slidePos with the scroll position and the slide offset exchanged.
SlidePosTenthsSwapped(offsetTop, scrollPos, windowHeight) ==
  10 * (scrollPos - offsetTop) + 7 * windowHeight

SlidePosTenths(offsetTop, scrollPos, windowHeight) ==
  10 * (offsetTop - scrollPos) + 7 * windowHeight

\* The loop with `slidePos > 0` for the test of line 304.
RECURSIVE ScanSlidesStrict(_, _, _, _, _)
ScanSlidesStrict(i, n, offsets, scrollPos, windowHeight) ==
  IF i < n
  THEN IF SlidePosTenths(offsets[i + 1], scrollPos, windowHeight) > 0
       THEN i
       ELSE ScanSlidesStrict(i + 1, n, offsets, scrollPos, windowHeight)
  ELSE i

\* The for loop of lines 300-307 over n slides, entered with counter i.
RECURSIVE ScanSlides(_, _, _, _, _)
ScanSlides(i, n, offsets, scrollPos, windowHeight) ==
  IF i < n
  THEN IF SlidePosTenths(offsets[i + 1], scrollPos, windowHeight) >= 0
       THEN i
       ELSE ScanSlides(i + 1, n, offsets, scrollPos, windowHeight)
  ELSE i

\* Lines 309-312 without the test of line 309.
ApplyScrollIndexAlways(i) ==
  /\ Len(syncs) < MaxSyncs
  /\ currentSlideIndex' = i
  /\ syncMapToCurrentSlide(i, "scroll")

\* Lines 309-312, for the index i the loop ended with.
ApplyScrollIndex(i) ==
  IF i # currentSlideIndex
  THEN /\ Len(syncs) < MaxSyncs
       /\ currentSlideIndex' = i
       /\ syncMapToCurrentSlide(i, "scroll")
  ELSE UNCHANGED << currentSlideIndex, syncs >>

\* The offsetTop values of n slides: slides follow each other down the page.
OffsetTops == { 0, 10, 20 }
SlideOffsets(n) ==
  { o \in [1..n -> OffsetTops] : \A a, b \in 1..n : a <= b => o[a] <= o[b] }
ScrollPositions == { 10 * s : s \in 0..MaxScrollSteps }
WindowHeights == { 0, 10 }

\* The indices the loop can end with for n slides, over the page geometries drawn.
ScanResults[n \in { Len(c) : c \in SlideConfigs }] ==
  { ScanSlides(0, n, offsets, scrollPos, windowHeight) :
      offsets \in SlideOffsets(n), scrollPos \in ScrollPositions,
      windowHeight \in WindowHeights }

\* A scroll event whose loop ends with i.
calcCurrentSlideIndexAt(i) ==
  /\ ApplyScrollIndex(i)
  /\ UNCHANGED mapVars

calcCurrentSlideIndex ==
  \E i \in ScanResults[N] : calcCurrentSlideIndexAt(i)

(***************************************************************************)
(* The rest of syncMapToSlide (lines 194-240) for call k, once the fetch   *)
(* and the JSON decoding of line 193 have succeeded.  It has no further    *)
(* await and runs as one task: render, register handleFlyEnd, flyToBounds, *)
(* legend.                                                                 *)
(***************************************************************************)
ResolveOk(k) ==
  /\ syncs[k].state = "pending"
  /\ syncs' = [syncs EXCEPT ![k].state = "done"]
  /\ updateDataLayer(k)
  /\ moveendListeners' = moveendListeners \cup {k}
  /\ flyToBounds(k)
  /\ SyncLegend(SlideOf(k))
  /\ UNCHANGED << slides, hidden, currentSlideIndex, tooltips >>

(***************************************************************************)
(* The fetch or the JSON decoding of getSlideFeatureCollection (lines      *)
(* 166-170) fails for call k: the await of line 193 throws and the promise *)
(* of syncMapToSlide is rejected; no caller handles it (line 249).         *)
(***************************************************************************)
\* A syncMapToSlide that clears the overlay before its data has arrived.
ResolveFailClearsLayer(k) ==
  /\ syncs[k].state = "pending"
  /\ syncs' = [syncs EXCEPT ![k].state = "failed"]
  /\ dataLayer' = {}
  /\ UNCHANGED << slides, hidden, currentSlideIndex, lastLayer,
                  moveendListeners, flyTarget, controls, legendAdds, tooltips >>

ResolveFail(k) ==
  /\ syncs[k].state = "pending"
  /\ syncs' = [syncs EXCEPT ![k].state = "failed"]
  /\ UNCHANGED << currentSlideIndex, mapVars >>

(***************************************************************************)
(* The map fires 'moveend' (the end of a flyToBounds animation, or of a    *)
(* move by the user): every registered handleFlyEnd (lines 215-223) runs   *)
(* and removes itself (line 222).  A handleFlyEnd binds and opens a        *)
(* permanent tooltip on every feature layer of the layer of its own call   *)
(* when its slide has showpopups set (lines 216-221).                      *)
(***************************************************************************)
handleFlyEnd(k) ==
  [syncs[k] EXCEPT !.flyEnds = @ + 1]

\* Lines 216-221 with the test on slide.showpopups left out.
RevealedAlways(k) == LayerFeatures(k)

\* The feature layers handleFlyEnd of call k binds a permanent tooltip to.
Revealed(k) ==
  IF SlideOf(k).showpopups THEN LayerFeatures(k) ELSE {}

\* A handleFlyEnd without the removeEventListener of line 222.
MoveEndKeepsListeners ==
  /\ syncs' = [k \in SyncIds |->
                 IF k \in moveendListeners THEN handleFlyEnd(k) ELSE syncs[k]]
  /\ tooltips' = tooltips \cup UNION { Revealed(k) : k \in moveendListeners }
  /\ UNCHANGED << slides, hidden, currentSlideIndex, dataLayer, lastLayer,
                  moveendListeners, flyTarget, controls, legendAdds >>

MoveEnd ==
  /\ syncs' = [k \in SyncIds |->
                 IF k \in moveendListeners THEN handleFlyEnd(k) ELSE syncs[k]]
  /\ tooltips' = tooltips \cup UNION { Revealed(k) : k \in moveendListeners }
  /\ moveendListeners' = {}
  /\ UNCHANGED << slides, hidden, currentSlideIndex, dataLayer, lastLayer,
                  flyTarget, controls, legendAdds >>

(***************************************************************************)
(* The deck: the tasks of the event loop that call the deck or continue    *)
(* one of its calls.  The fetches of preloadFeatureCollections stay in     *)
(* flight here; PreloadSpec lets them settle.                              *)
(***************************************************************************)
Next ==
  \/ goNextSlide /\ UNCHANGED sideVars
  \/ goPrevSlide /\ UNCHANGED sideVars
  \/ calcCurrentSlideIndex /\ UNCHANGED sideVars
  \/ \E k \in SyncIds : ResolveOk(k) /\ UNCHANGED sideVars
  \/ \E k \in SyncIds : ResolveFail(k) /\ UNCHANGED sideVars
  \/ MoveEnd /\ UNCHANGED sideVars

Spec == Init /\ [][Next]_vars

(***************************************************************************)
(* The deck with the fetches of preloadFeatureCollections (lines 287-291)  *)
(* settling, and with scroll events that change no index told apart from   *)
(* the other tasks.  A preload fetch runs getSlideFeatureCollection and    *)
(* nothing reads the promise it returns.                                   *)
(***************************************************************************)
\* syncMapToSlide calls made in one run of PreloadSpec.
MaxPreloadSyncs == 2

\* A preload whose settling clears the overlay.
PreloadSettleClears(i, result) ==
  /\ preloads[i] = "pending"
  /\ preloads' = [preloads EXCEPT ![i] = result]
  /\ dataLayer' = {}
  /\ UNCHANGED << slides, hidden, currentSlideIndex, syncs, lastLayer,
                  moveendListeners, flyTarget, controls, legendAdds, tooltips >>

\* The preload fetch of slide i settles: "ok" (resolved) or "failed" (rejected).
PreloadSettle(i, result) ==
  /\ preloads[i] = "pending"
  /\ preloads' = [preloads EXCEPT ![i] = result]
  /\ UNCHANGED deckVars

MayCall == Len(syncs) < MaxPreloadSyncs

PreloadNext ==
  \/ MayCall /\ goNextSlide /\ noopScroll' = FALSE /\ UNCHANGED << preloads, scan >>
  \/ MayCall /\ goPrevSlide /\ noopScroll' = FALSE /\ UNCHANGED << preloads, scan >>
  \/ \E i \in ScanResults[N] :
       /\ i # currentSlideIndex => MayCall
       /\ calcCurrentSlideIndexAt(i)
       /\ noopScroll' = (i = currentSlideIndex)
       /\ UNCHANGED << preloads, scan >>
  \/ \E k \in SyncIds :
       ResolveOk(k) /\ noopScroll' = FALSE /\ UNCHANGED << preloads, scan >>
  \/ \E k \in SyncIds :
       ResolveFail(k) /\ noopScroll' = FALSE /\ UNCHANGED << preloads, scan >>
  \/ MoveEnd /\ noopScroll' = FALSE /\ UNCHANGED << preloads, scan >>
  \/ \E i \in 1..N, result \in { "ok", "failed" } :
       PreloadSettle(i, result) /\ noopScroll' = FALSE /\ UNCHANGED scan

PreloadSpec == Init /\ [][PreloadNext]_vars

(***************************************************************************)
(* The index computation of calcCurrentSlideIndex on its own (lines        *)
(* 297-307): scan holds the page geometry read by one scroll event and the *)
(* value of i after the loop.  The deck is left as constructed.            *)
(***************************************************************************)
Scan(offsets, scrollPos, windowHeight) ==
  [offsets |-> offsets, scrollPos |-> scrollPos, windowHeight |-> windowHeight,
   index |-> ScanSlides(0, N, offsets, scrollPos, windowHeight)]

ScanInit ==
  /\ DeckInit
  /\ scan = Scan([i \in 1..N |-> 0], 0, 0)

\* The page is scrolled to scrollPos and the scroll event runs the loop.
ScrollTo(scrollPos) ==
  /\ scan' = Scan(scan.offsets, scrollPos, scan.windowHeight)
  /\ UNCHANGED << deckVars, preloads, noopScroll >>

\* The page is laid out anew (a resize) and the next scroll event runs the loop.
Relayout(offsets, windowHeight) ==
  /\ scan' = Scan(offsets, scan.scrollPos, windowHeight)
  /\ UNCHANGED << deckVars, preloads, noopScroll >>

ScanNext ==
  \/ \E scrollPos \in ScrollPositions : ScrollTo(scrollPos)
  \/ \E offsets \in SlideOffsets(N), windowHeight \in WindowHeights :
       Relayout(offsets, windowHeight)

ScanSpec == ScanInit /\ [][ScanNext]_vars

(***************************************************************************)
(* Properties.                                                             *)
(***************************************************************************)
LastSync == Len(syncs)
LegendShown == "legend" \in controls
IsTitle(i) == InRange(i) /\ SlideAt(i).id = "title-slide"

\* C1: in every reachable state 0 <= currentSlideIndex < N; a scroll
\* recompute whose loop ends with N does not move the deck to index N.
C1_IndexInRange == InRange(currentSlideIndex)

\* C2: when a call of syncMapToSlide resolves while a later requested call
\* has already resolved (both were in flight together) and nothing is left
\* in flight, the overlay is the one of the last requested slide and no
\* arrival callback other than that of the last requested slide is pending.
C2_LastRequestedWins ==
  [][\A k \in SyncIds :
       ( /\ k < LastSync
         /\ syncs[k].state = "pending"
         /\ syncs'[k].state = "done"
         /\ syncs[LastSync].state = "done"
         /\ \A j \in SyncIds : syncs'[j].state # "pending" )
       => /\ dataLayer' = {LastSync}
          /\ moveendListeners' \subseteq {LastSync}]_vars

\* C3: at most one overlay: the feature layers in the data layer are exactly
\* those of the collection passed to the latest updateDataLayer call, also
\* in number, and there are none before the first call.
C3_SingleOverlay ==
  /\ OverlayFeatures = LayerFeatures(lastLayer)
  /\ lastLayer # 0 =>
       Cardinality(OverlayFeatures)
         = NumFeatures(SlideAt(syncs[lastLayer].idx).id)

\* Two renders of different slides have happened and two more transitions
\* are in flight.
C3_Witness ==
  /\ lastLayer # 0
  /\ Cardinality(Pending) >= 2
  /\ \E j \in SyncIds :
       /\ j # lastLayer
       /\ syncs[j].state = "done"
       /\ syncs[j].idx # syncs[lastLayer].idx

\* C4: a failing dataset resolution renders nothing: the step in which the
\* promise of a call is rejected leaves the overlay, the arrival callbacks
\* and the legend as they were, and leaves currentSlideIndex at the value it
\* has, which for the latest call is the index that call was made for.
C4_FailureKeepsOverlay ==
  [][\A k \in SyncIds :
       (syncs[k].state = "pending" /\ syncs'[k].state = "failed")
       => /\ dataLayer' = dataLayer
          /\ lastLayer' = lastLayer
          /\ OverlayFeatures' = OverlayFeatures
          /\ moveendListeners' = moveendListeners
          /\ controls' = controls
          /\ currentSlideIndex' = currentSlideIndex
          /\ k = LastSync => currentSlideIndex' = syncs[k].idx]_vars

\* The latest transition failed after an earlier one had rendered another
\* slide: the index is the new one, the overlay the old one.
C4_Witness ==
  /\ lastLayer # 0
  /\ Pending = {}
  /\ syncs[LastSync].state = "failed"
  /\ InRange(syncs[LastSync].idx)
  /\ currentSlideIndex = syncs[LastSync].idx
  /\ syncs[lastLayer].idx # currentSlideIndex
  /\ dataLayer = {lastLayer}

\* C5: at most one arrival ('moveend') callback is registered at any time.
C5_OnePendingCallback == Cardinality(moveendListeners) <= 1

\* C6: the arrival callback is one-shot: no handleFlyEnd ever runs twice, a
\* registered one has not run yet, only registered ones run, and a step in
\* which any of them runs (an arrival) runs every registered one and
\* leaves none of them registered.
C6_OneShotCallback ==
  [][\A k \in 1..Len(syncs') :
       LET ran == IF k \in SyncIds THEN syncs[k].flyEnds ELSE 0
           arrival == \E j \in SyncIds : syncs'[j].flyEnds > syncs[j].flyEnds
       IN /\ syncs'[k].flyEnds <= 1
          /\ k \in moveendListeners' => syncs'[k].flyEnds = 0
          /\ syncs'[k].flyEnds > ran => k \in moveendListeners
          /\ (arrival /\ k \in moveendListeners) =>
               (syncs'[k].flyEnds = 1 /\ k \notin moveendListeners')
          /\ (syncs'[k].state = "done" /\ k \notin moveendListeners') =>
               syncs'[k].flyEnds = 1]_vars

\* Two callbacks have each run once and a third one is registered, so
\* arrivals happened both before and after a registration.
C6_Witness ==
  \E i, j, k \in SyncIds :
    /\ i < j /\ j < k
    /\ syncs[i].flyEnds = 1 /\ syncs[j].flyEnds = 1
    /\ moveendListeners = {k}

\* C7: a goNextSlide called at a valid index i leaves i + 1, or 0 past the
\* last slide, and N calls of goNextSlide in a row from index 0 end at
\* index 0; currentSlideIndex is the index of the latest call.
C7_NextCycle ==
  /\ currentSlideIndex = syncs[LastSync].idx
  /\ \A k \in 2..LastSync :
       (syncs[k].op = "next" /\ InRange(syncs[k - 1].idx))
       => syncs[k].idx = (syncs[k - 1].idx + 1) % N
  /\ \A k \in SyncIds :
       ( /\ syncs[k].idx = 0
         /\ k + N <= LastSync
         /\ \A j \in (k + 1)..(k + N) : syncs[j].op = "next" )
       => syncs[k + N].idx = 0

\* Three slides and three goNextSlide calls since startup.
C7_Witness ==
  /\ N = 3
  /\ LastSync = 4
  /\ \A j \in 2..4 : syncs[j].op = "next"
  /\ currentSlideIndex = 0

\* C8: goNextSlide followed by goPrevSlide from a valid index i ends at i.
C8_PrevInvertsNext ==
  \A k \in 2..(LastSync - 1) :
    ( /\ syncs[k].op = "next"
      /\ syncs[k + 1].op = "prev"
      /\ InRange(syncs[k - 1].idx) )
    => /\ syncs[k + 1].idx = syncs[k - 1].idx
       /\ k + 1 = LastSync => currentSlideIndex = syncs[k - 1].idx

\* goNextSlide then goPrevSlide across the wrap, from the last slide.
C8_Witness ==
  /\ N >= 2
  /\ LastSync >= 3
  /\ syncs[LastSync - 2].idx = N - 1
  /\ syncs[LastSync - 1].op = "next"
  /\ syncs[LastSync - 1].idx = 0
  /\ syncs[LastSync].op = "prev"
  /\ currentSlideIndex = N - 1

\* C9: once a transition has completed (the latest render and legend sync
\* are those of call lastLayer), the legend is shown if and only if the
\* slide it entered is 'title-slide'.
C9_LegendFollowsSlide ==
  lastLayer # 0 => (LegendShown <=> IsTitle(syncs[lastLayer].idx))

\* C10: the legend is shown only while the title slide is the current one.
C10_LegendOnlyOnTitle == LegendShown => IsTitle(currentSlideIndex)

\* C11: the loop of calcCurrentSlideIndex ends with the smallest index i
\* whose trigger line slideTop_i - scrollOffset + 0.7 * viewportHeight (here
\* in tenths) is >= 0, and with N when no slide has one.
C11_FirstTriggered ==
  LET triggered ==
        { i \in 0..(N - 1) :
            10 * scan.offsets[i + 1] - 10 * scan.scrollPos
              + 7 * scan.windowHeight >= 0 }
  IN IF triggered = {}
     THEN scan.index = N
     ELSE /\ scan.index \in triggered
          /\ \A i \in triggered : scan.index <= i

\* Three slides, all of them above the trigger line: the loop ends with 3.
C11_Witness ==
  /\ N = 3
  /\ scan.index = 3
  /\ scan.scrollPos > scan.offsets[3]

\* C12: with slide offsets and viewport height unchanged, a scroll to an
\* offset at least as large gives an index at least as large.
C12_MonotoneInScroll ==
  [][( /\ scan'.offsets = scan.offsets
       /\ scan'.windowHeight = scan.windowHeight
       /\ scan.scrollPos <= scan'.scrollPos )
     => scan.index <= scan'.index]_vars

\* The page has been scrolled down and the index has moved past slide 0.
C12_Witness ==
  /\ N = 3
  /\ scan.scrollPos > 0
  /\ scan.index = 2

C14_OnlyEnteredSlideShown ==
  (LastSync >= 2 /\ InRange(currentSlideIndex))
  => hidden = (1..N) \ { currentSlideIndex + 1 }

\* C15: a transition that completes next after a completed transition into
\* a slide of the same id shows and hides no legend: no addTo, no
\* removeControl.
C15_LegendSyncIdempotent ==
  [][\A k \in SyncIds :
       ( /\ syncs[k].state = "pending"
         /\ syncs'[k].state = "done"
         /\ lastLayer # 0
         /\ SlideOf(lastLayer).id = SlideOf(k).id )
       => (legendAdds' = legendAdds /\ controls' = controls)]_vars

\* C16: a scroll event whose computed index is currentSlideIndex starts no
\* dataset resolution and leaves the index, the overlay, the legend and the
\* arrival callbacks as they were.
C16_ScrollNoop ==
  [][noopScroll' =>
       /\ syncs' = syncs
       /\ preloads' = preloads
       /\ currentSlideIndex' = currentSlideIndex
       /\ dataLayer' = dataLayer
       /\ OverlayFeatures' = OverlayFeatures
       /\ controls' = controls
       /\ moveendListeners' = moveendListeners
       /\ UNCHANGED deckVars]_vars

\* A scroll event has changed nothing while an overlay is displayed, the
\* legend is shown and an arrival callback is registered.
C16_Witness ==
  /\ noopScroll
  /\ lastLayer # 0
  /\ LegendShown
  /\ moveendListeners # {}

\* C17: preloadFeatureCollections has one dataset resolution per slide, and
\* the settling of any of them, resolved or rejected, leaves the index, the
\* overlay, the legend, the arrival callbacks and the syncMapToSlide calls
\* as they were.
C17_PreloadIsInert ==
  [][ /\ DOMAIN preloads' = 1..N
      /\ preloads' # preloads =>
           /\ currentSlideIndex' = currentSlideIndex
           /\ dataLayer' = dataLayer
           /\ OverlayFeatures' = OverlayFeatures
           /\ controls' = controls
           /\ moveendListeners' = moveendListeners
           /\ syncs' = syncs
           /\ UNCHANGED deckVars ]_vars

\* One preload was rejected and another resolved after an overlay was
\* rendered and while a callback is registered.
C17_Witness ==
  /\ lastLayer # 0
  /\ moveendListeners # {}
  /\ \E i, j \in 1..N : preloads[i] = "failed" /\ preloads[j] = "ok"

\* C18: the feature layers of a completed transition hold a permanent
\* tooltip exactly when its slide has showpopups set and its arrival
\* callback has run, and then every one of them does; no other feature layer
\* holds one.
C18_TooltipsOnArrival ==
  /\ \A k \in SyncIds :
       syncs[k].state = "done" =>
         tooltips \cap LayerFeatures(k)
           = IF SlideOf(k).showpopups /\ syncs[k].flyEnds >= 1
             THEN LayerFeatures(k)
             ELSE {}
  /\ tooltips \subseteq
       UNION { LayerFeatures(k) : k \in { j \in SyncIds : syncs[j].state = "done" } }

\* Arrival callbacks have run for a slide with showpopups and for one
\* without, and another transition into a slide with showpopups has rendered
\* and not arrived yet.
C18_Witness ==
  \E i, j, k \in SyncIds :
    /\ syncs[i].state = "done" /\ syncs[i].flyEnds = 1 /\ SlideOf(i).showpopups
    /\ LayerFeatures(i) \subseteq tooltips
    /\ syncs[j].state = "done" /\ syncs[j].flyEnds = 1 /\ ~SlideOf(j).showpopups
    /\ syncs[k].state = "done" /\ syncs[k].flyEnds = 0 /\ SlideOf(k).showpopups
    /\ k \in dataLayer

\* C19: an arrival callback that binds permanent tooltips binds them to the
\* layer that is in the data layer when it runs.
C19_RevealOnDisplayedLayer ==
  [][\A k \in SyncIds :
       (syncs'[k].flyEnds > syncs[k].flyEnds /\ SlideOf(k).showpopups)
       => k \in dataLayer]_vars

\* C20: once an overlay is displayed, the legend is shown if and only if the
\* displayed collection is the one of 'title-slide'.
C20_LegendMatchesOverlay ==
  \A k \in dataLayer : LegendShown <=> (SlideOf(k).id = "title-slide")

=============================================================================
